---- MODULE Spec2Model ----
(***************************************************************************)
(* Multi-operator route search aggregation                                 *)
(* (src/app/services/ferry_integration.py).                                *)
(*                                                                         *)
(* The state is the FerryOperatorIntegrationService: its adapter registry  *)
(* (a dict, so insertion-ordered and keyed by operator code), the aiohttp  *)
(* sessions it has opened, one search_all_operators call with its tasks,   *)
(* one close() call, and the map last returned by health_check_all.        *)
(* Beside it stand the payment service (src/app/services/                  *)
(* payment_service.py), the auth endpoints (src/app/api/v1/endpoints/      *)
(* auth.py) and the get_db dependency (src/app/db/session.py).             *)
(*                                                                         *)
(* Strings that the code orders (departure_time) are tuples of character   *)
(* ranks, so that "<" on them is Python's lexicographic str comparison.    *)
(* Prices are Decimals with a fixed number of places, written as integers. *)
(***************************************************************************)
EXTENDS Integers, Sequences, FiniteSets, TLC

VARIABLES
    adapters,       \* self.adapters: sequence of adapter objects in dict order
    session,        \* self.session: 0 is None, else an index into sessions
    sessions,       \* sessions[i]: "open" or "closed", every ClientSession created
    pc,             \* position of the search_all_operators call
    tasks,          \* the tasks of that call, in creation order
    completion,     \* indices of the finished tasks, in the order they finished
    ret,            \* the value the call returned
    close_pc,       \* position of the close() call
    health_report,  \* the dict last returned by health_check_all
    booking,        \* the last create_booking call of the service and its outcome
    payment,        \* the last PaymentService.create_payment call and its outcome
    users,          \* the rows of the users table
    auth,           \* the requests to the auth endpoints, by request slot
    db              \* one request's database session handed out by get_db

\* What the code outside the ferry integration service works on.
app_vars == <<payment, users, auth, db>>

vars == <<adapters, session, sessions, pc, tasks, completion, ret, close_pc,
          health_report, booking, app_vars>>

(***************************************************************************)
(* Bounds of the model.                                                    *)
(***************************************************************************)
MaxSessions == 2
MaxEntries == 4
MaxResults == 2
MaxRequests == 2

OperatorCodes == {"CTN", "GNV"}

(***************************************************************************)
(* The state before any booking, payment or request.                       *)
(***************************************************************************)
NoBooking == [operator_code |-> "", raised |-> FALSE, result |-> "none"]
NoPayment == [state |-> "idle"]
NoUsers == <<>>
NoAuth == <<>>
NoDb == <<>>

AppInit ==
    /\ booking = NoBooking
    /\ payment = NoPayment
    /\ users = NoUsers
    /\ auth = NoAuth
    /\ db = NoDb

(***************************************************************************)
(* JSON values as the adapters read them with dict.get.                    *)
(***************************************************************************)
Absent == [t |-> "absent", v |-> 0]
Null == [t |-> "null", v |-> 0]
Text == [t |-> "text", v |-> 0]
Num(n) == [t |-> "number", v |-> n]
NumStr(n) == [t |-> "numeric_string", v |-> n]

\* item.get(key, default)
DictGet(x, default) == IF x.t = "absent" THEN default ELSE x

\* Decimal(str(x)): a number or a string spelling a number converts to that
\* number; str(None) = "None" and any other text raise InvalidOperation.
DecimalOfStr(x) ==
    IF x.t \in {"number", "numeric_string"}
    THEN [ok |-> TRUE, value |-> x.v]
    ELSE [ok |-> FALSE, value |-> 0]

\* Python's "<" on str: lexicographic on the characters, a proper prefix first.
RECURSIVE StrLess(_, _)
StrLess(a, b) ==
    IF a = <<>> THEN b # <<>>
    ELSE IF b = <<>> THEN FALSE
    ELSE IF Head(a) # Head(b) THEN Head(a) < Head(b)
    ELSE StrLess(Tail(a), Tail(b))

(***************************************************************************)
(* SearchResponse and the response-mapping step of the two adapters.       *)
(* An entry of an operator's result list is a JSON object (kind "object")  *)
(* or any other JSON value (kind "scalar"); its fields are named by role,  *)
(* each adapter reading them under its own wire names.                     *)
(***************************************************************************)
SearchResponse(code, route, dep, seats, price) ==
    [operator_code |-> code, route_id |-> route, departure_time |-> dep,
     available_seats |-> seats, base_price |-> price]

\* One iteration of the loop of _parse_search_response: the try body.
LykoEntry(item, own_code) ==
    IF item.kind # "object" THEN [ok |-> FALSE, value |-> <<>>]
    ELSE LET price == DecimalOfStr(DictGet(item.price, Num(0)))
         IN IF ~price.ok THEN [ok |-> FALSE, value |-> <<>>]
            ELSE [ok |-> TRUE,
                  value |-> <<SearchResponse(
                      IF item.operator_code = "" THEN own_code
                                                 ELSE item.operator_code,
                      item.route_id, item.departure,
                      DictGet(item.seats, Num(0)), price.value)>>]

\* One iteration of the loop of _parse_ctn_response: the try body.
CTNEntry(item) ==
    IF item.kind # "object" THEN [ok |-> FALSE, value |-> <<>>]
    ELSE LET price == DecimalOfStr(DictGet(item.price, Num(0)))
         IN IF ~price.ok THEN [ok |-> FALSE, value |-> <<>>]
            ELSE [ok |-> TRUE,
                  value |-> <<SearchResponse("CTN", item.route_id,
                      item.departure,
                      IF item.seats.t = "absent" THEN Null ELSE item.seats,
                      price.value)>>]

ParseEntry(kind, item, own_code) ==
    IF kind = "ctn" THEN CTNEntry(item) ELSE LykoEntry(item, own_code)

\* The loop over the entries (for / try / except / continue): an entry that
\* converts is appended, one that raises is logged and skipped.
RECURSIVE ParseLoopDropAll(_, _, _, _)
ParseLoopDropAll(kind, items, own_code, results) ==
    IF items = <<>> THEN results
    ELSE LET e == ParseEntry(kind, Head(items), own_code)
         IN IF e.ok
            THEN ParseLoopDropAll(kind, Tail(items), own_code,
                                  results \o e.value)
            ELSE <<>>

RECURSIVE ParseLoop(_, _, _, _)
ParseLoop(kind, items, own_code, results) ==
    IF items = <<>> THEN results
    ELSE LET e == ParseEntry(kind, Head(items), own_code)
         IN IF e.ok
            THEN ParseLoop(kind, Tail(items), own_code, results \o e.value)
            ELSE ParseLoop(kind, Tail(items), own_code, results)

\* _parse_search_response / _parse_ctn_response on the decoded body `data`:
\* data.get raises on a body that is not an object, the for statement raises
\* on a list field that is null, and an absent list field defaults to [].
ParseSearchResponse(kind, data, own_code) ==
    IF data.json # "object" THEN [raised |-> TRUE, value |-> <<>>]
    ELSE IF data.list = "null" THEN [raised |-> TRUE, value |-> <<>>]
    ELSE IF data.list = "absent" THEN [raised |-> FALSE, value |-> <<>>]
    ELSE [raised |-> FALSE,
          value |-> ParseLoop(kind, data.items, own_code, <<>>)]

(***************************************************************************)
(* search_routes of the two adapters.  A response is what the HTTP         *)
(* exchange gives: net "error" is any exception out of session.post        *)
(* (refused, timed out, session closed), else a status and a body.         *)
(***************************************************************************)
\* except Exception: log and return [].
OnSearchErrorReraise == [raised |-> TRUE, how |-> "exception", value |-> <<>>]
OnSearchError == [raised |-> FALSE, how |-> "exception", value |-> <<>>]

\* else branch of `if response.status == 200`: log and return [].
OnStatusError == [raised |-> FALSE, how |-> "status", value |-> <<>>]

SearchRoutes(kind, own_code, session_state, response) ==
    IF session_state # "open" \/ response.net = "error" THEN OnSearchError
    ELSE IF response.status # 200 THEN OnStatusError
    ELSE IF response.body.json = "invalid" THEN OnSearchError
    ELSE LET parsed == ParseSearchResponse(kind, response.body, own_code)
         IN IF parsed.raised THEN OnSearchError
            ELSE [raised |-> FALSE, how |-> "ok", value |-> parsed.value]

\* _safe_search: an exception out of search_routes becomes [].
SafeSearch(r) ==
    IF r.raised THEN [raised |-> FALSE, how |-> r.how, value |-> <<>>] ELSE r

(***************************************************************************)
(* The registry: initialize, _create_adapter, close.                       *)
(***************************************************************************)
\* FerryOperator.api_timeout_seconds: Column(Integer, default=30,
\* nullable=False), so a row always holds a number.
DefaultTimeoutSeconds == 30

\* aiohttp.ClientTimeout(total=30) of both search_routes.
SearchTimeoutSeconds == 30

\* FerryOperator rows as initialize reads them, with api_timeout_seconds
\* drawn from `timeouts`.  adapter_error says that _create_adapter raises
\* on the row, the case the try/except of initialize is written for.
OperatorRows(timeouts, errors) ==
    [code : OperatorCodes, is_active : BOOLEAN,
     integration_status : {"lyko", "pending"},
     api_endpoint : {"", "https://api.ctn.com.tn/v1"},
     api_timeout_seconds : timeouts,
     adapter_error : errors]

\* Rows that keep the column default and on which every adapter is built.
OperatorConfigs == OperatorRows({DefaultTimeoutSeconds}, {FALSE})

\* The same rows, and those on which _create_adapter raises.
RegistryConfigs == OperatorRows({DefaultTimeoutSeconds}, BOOLEAN)

\* Timeouts an administrator may have configured for an operator.
ConfiguredTimeouts == {10, DefaultTimeoutSeconds, 60}

\* FerryOperator.code is unique: a list of rows holds each code once.
AllOperatorLists ==
    {<<>>} \cup {<<o>> : o \in OperatorConfigs}
           \cup {<<o1, o2>> : o1 \in OperatorConfigs, o2 \in OperatorConfigs}
OperatorLists ==
    {ops \in AllOperatorLists :
        \A i \in 1..Len(ops) : \A j \in 1..Len(ops) :
            ops[i].code = ops[j].code => i = j}
RegistryLists ==
    {ops \in {<<>>} \cup {<<o>> : o \in RegistryConfigs}
                    \cup {<<o1, o2>> : o1 \in RegistryConfigs,
                                       o2 \in RegistryConfigs} :
        \A i \in 1..Len(ops) : \A j \in 1..Len(ops) :
            ops[i].code = ops[j].code => i = j}

\* _create_adapter: the adapter variant, bound to the session open now.  The
\* adapter keeps its row (self.operator), of which the model keeps the
\* code and api_timeout_seconds.
CreateAdapter(operator, sess) ==
    [code |-> operator.code,
     api_timeout_seconds |-> operator.api_timeout_seconds,
     kind |-> IF operator.integration_status = "lyko" THEN "lyko"
              ELSE IF operator.code = "CTN" /\ operator.api_endpoint # ""
                   THEN "ctn"
                   ELSE "lyko",
     session |-> sess]

\* self.adapters[operator.code] = adapter: a dict keeps a key's first position.
DictSet(d, a) ==
    IF \E i \in 1..Len(d) : d[i].code = a.code
    THEN [i \in 1..Len(d) |-> IF d[i].code = a.code THEN a ELSE d[i]]
    ELSE Append(d, a)

\* The loop of initialize over the operators: `continue` on an inactive
\* row; an exception of _create_adapter is logged and the loop goes on.
RECURSIVE RegisterAllIgnoringActive(_, _, _)
RegisterAllIgnoringActive(d, operators, sess) ==
    IF operators = <<>> THEN d
    ELSE LET operator == Head(operators)
         IN IF operator.adapter_error
            THEN RegisterAllIgnoringActive(d, Tail(operators), sess)
            ELSE RegisterAllIgnoringActive(
                     DictSet(d, CreateAdapter(operator, sess)),
                     Tail(operators), sess)
RECURSIVE RegisterAll(_, _, _)
RegisterAll(d, operators, sess) ==
    IF operators = <<>> THEN d
    ELSE LET operator == Head(operators)
         IN IF ~operator.is_active
            THEN RegisterAll(d, Tail(operators), sess)
            ELSE IF operator.adapter_error
            THEN RegisterAll(d, Tail(operators), sess)
            ELSE RegisterAll(DictSet(d, CreateAdapter(operator, sess)),
                             Tail(operators), sess)

\* initialize(operators): no await in it, so one step.
Initialize(operators) ==
    /\ UNCHANGED <<booking, app_vars>>
    /\ Len(sessions) < MaxSessions
    /\ sessions' = Append(sessions, "open")
    /\ session' = Len(sessions) + 1
    /\ adapters' = RegisterAll(adapters, operators, Len(sessions) + 1)
    /\ UNCHANGED <<pc, tasks, completion, ret, close_pc, health_report>>

\* close(), up to the await of session.close().  A ClientSession is always
\* truthy; only None skips the branch, and then the whole body is one step.
CloseSession ==
    /\ UNCHANGED <<booking, app_vars>>
    /\ close_pc = "idle"
    /\ IF session = 0
       THEN /\ adapters' = <<>>
            /\ UNCHANGED <<sessions, close_pc>>
       ELSE /\ sessions' = [sessions EXCEPT ![session] = "closed"]
            /\ close_pc' = "clear"
            /\ UNCHANGED adapters
    /\ UNCHANGED <<session, pc, tasks, completion, ret, health_report>>

\* close(), after the await: self.adapters.clear().
CloseClearDropsTasks ==
    /\ UNCHANGED <<booking, app_vars>>
    /\ close_pc = "clear"
    /\ adapters' = <<>>
    /\ tasks' = <<>>
    /\ close_pc' = "idle"
    /\ UNCHANGED <<session, sessions, pc, completion, ret, health_report>>
CloseClear ==
    /\ UNCHANGED <<booking, app_vars>>
    /\ close_pc = "clear"
    /\ adapters' = <<>>
    /\ close_pc' = "idle"
    /\ UNCHANGED <<session, sessions, pc, tasks, completion, ret, health_report>>

(***************************************************************************)
(* search_all_operators.                                                   *)
(***************************************************************************)
NoBody == [json |-> "invalid", list |-> "absent", items |-> <<>>]
NetError == [net |-> "error", status |-> 0, body |-> NoBody]
Http(status, body) == [net |-> "ok", status |-> status, body |-> body]
ListBody(items) == [json |-> "object", list |-> "list", items |-> items]
NoRoutes == [raised |-> FALSE, how |-> "pending", value |-> <<>>]

Entry(code, route, dep, seats, price) ==
    [kind |-> "object", operator_code |-> code, route_id |-> route,
     departure |-> dep, seats |-> seats, price |-> price]
Scalar ==
    [kind |-> "scalar", operator_code |-> "", route_id |-> "",
     departure |-> <<>>, seats |-> Absent, price |-> Absent]

\* asyncio.create_task(self._safe_search(adapter, request)) for one adapter.
\* timeout is the total of the ClientTimeout its request was made with, 0
\* as long as no request was made.
CreateTask(adapter) ==
    [code |-> adapter.code, kind |-> adapter.kind, session |-> adapter.session,
     api_timeout_seconds |-> adapter.api_timeout_seconds, timeout |-> 0,
     state |-> "pending", response |-> NetError, routes |-> NoRoutes]

\* timeout=aiohttp.ClientTimeout(total=30) in session.post and session.get:
\* the same literal for every operator.
ClientTimeout(adapter) == SearchTimeoutSeconds

\* `if not tasks: return []`
EmptyRegistryRaises == [raised |-> TRUE, value |-> <<>>]
EmptyRegistryReturn == [raised |-> FALSE, value |-> <<>>]

\* Lines 332-342: the loop that creates the tasks and the empty check; there
\* is no await in them, so they are one step.
StartSearch ==
    /\ UNCHANGED <<booking, app_vars>>
    /\ pc = "idle"
    /\ tasks' = [i \in 1..Len(adapters) |-> CreateTask(adapters[i])]
    /\ completion' = <<>>
    /\ IF adapters = <<>>
       THEN /\ pc' = IF EmptyRegistryReturn.raised THEN "raised" ELSE "done"
            /\ ret' = EmptyRegistryReturn.value
       ELSE /\ pc' = "gather"
            /\ ret' = <<>>
    /\ UNCHANGED <<adapters, session, sessions, close_pc, health_report>>

\* One task runs to its end: adapter.search_routes under _safe_search, the
\* backend answering with one of `responses`.  A closed session raises.
TaskComplete(i, responses) ==
    /\ UNCHANGED <<booking, app_vars>>
    /\ pc = "gather"
    /\ i \in 1..Len(tasks)
    /\ tasks[i].state = "pending"
    /\ \E r \in IF sessions[tasks[i].session] = "open" THEN responses
                                                        ELSE {NetError} :
           tasks' = [tasks EXCEPT ![i] =
               [tasks[i] EXCEPT
                   !.state = "done", !.response = r,
                   !.timeout = ClientTimeout(tasks[i]),
                   !.routes = SearchRoutes(tasks[i].kind, tasks[i].code,
                                  sessions[tasks[i].session], r)]]
    /\ completion' = Append(completion, i)
    /\ UNCHANGED <<adapters, session, sessions, pc, ret, close_pc,
                   health_report>>

\* The awaited search_routes of one task never resumes: nothing in
\* _safe_search or search_all_operators bounds the await.
SearchNeverCompletes(i) ==
    /\ UNCHANGED <<booking, app_vars>>
    /\ pc = "gather"
    /\ i \in 1..Len(tasks)
    /\ tasks[i].state = "pending"
    /\ sessions[tasks[i].session] = "open"
    /\ tasks' = [tasks EXCEPT ![i].state = "hung"]
    /\ UNCHANGED <<adapters, session, sessions, pc, completion, ret, close_pc,
                   health_report>>

\* The value a finished task holds: what _safe_search returned.
TaskResult(t) == SafeSearch(t.routes)

\* asyncio.gather returns the results in the order of its arguments.
GatherOrderAsCompleted(ts, done_order) == done_order
GatherOrder(ts, done_order) == [i \in 1..Len(ts) |-> i]

\* await asyncio.gather(*tasks, return_exceptions=True): never raises, an
\* exception of a task would be returned in its place.
GatherFailFast(ts, done_order) ==
    [raised |-> \E i \in 1..Len(ts) : ts[i].routes.how # "ok",
     results |-> [k \in 1..Len(ts) |->
                     TaskResult(ts[GatherOrder(ts, done_order)[k]])]]
Gather(ts, done_order) ==
    [raised |-> FALSE,
     results |-> [k \in 1..Len(ts) |->
                     TaskResult(ts[GatherOrder(ts, done_order)[k]])]]

\* Lines 348-353: extend with every result that is a list.
FlattenFirstList(results) ==
    IF results = <<>> \/ Head(results).raised THEN <<>>
    ELSE Head(results).value
RECURSIVE Flatten(_)
Flatten(results) ==
    IF results = <<>> THEN <<>>
    ELSE (IF Head(results).raised THEN <<>> ELSE Head(results).value)
         \o Flatten(Tail(results))

\* key=lambda x: (x.base_price, x.departure_time), compared as tuples.
KeyLessPriceOnly(a, b) == a.base_price < b.base_price
KeyLess(a, b) ==
    \/ a.base_price < b.base_price
    \/ /\ a.base_price = b.base_price
       /\ StrLess(a.departure_time, b.departure_time)

\* list.sort is stable: an element goes before the first one its key is
\* strictly less than.
RECURSIVE SortedInsertBeforeTies(_, _)
SortedInsertBeforeTies(s, x) ==
    IF s = <<>> THEN <<x>>
    ELSE IF ~KeyLess(Head(s), x) THEN <<x>> \o s
    ELSE <<Head(s)>> \o SortedInsertBeforeTies(Tail(s), x)
RECURSIVE SortedInsert(_, _)
SortedInsert(s, x) ==
    IF s = <<>> THEN <<x>>
    ELSE IF KeyLess(x, Head(s)) THEN <<x>> \o s
    ELSE <<Head(s)>> \o SortedInsert(Tail(s), x)

RECURSIVE SortResults(_)
SortResults(s) ==
    IF s = <<>> THEN <<>>
    ELSE SortedInsert(SortResults(SubSeq(s, 1, Len(s) - 1)), s[Len(s)])

\* `return all_results`
RespondRaiseOnEmpty(all_results) ==
    [raised |-> all_results = <<>>, value |-> all_results]
Respond(all_results) == [raised |-> FALSE, value |-> all_results]

\* Lines 345-358, once every task is done: gather, flatten, sort, return.
GatherFinish ==
    /\ UNCHANGED <<booking, app_vars>>
    /\ pc = "gather"
    /\ \A i \in 1..Len(tasks) : tasks[i].state = "done"
    /\ LET g == Gather(tasks, completion)
           r == Respond(SortResults(Flatten(g.results)))
       IN IF g.raised \/ r.raised
          THEN pc' = "raised" /\ ret' = <<>>
          ELSE pc' = "done" /\ ret' = r.value
    /\ UNCHANGED <<adapters, session, sessions, tasks, completion, close_pc,
                   health_report>>

\* The caller takes the outcome; the service is ready for the next search.
SearchReturn ==
    /\ UNCHANGED <<booking, app_vars>>
    /\ pc \in {"done", "raised"}
    /\ pc' = "idle"
    /\ tasks' = <<>>
    /\ completion' = <<>>
    /\ ret' = <<>>
    /\ UNCHANGED <<adapters, session, sessions, close_pc, health_report>>

(***************************************************************************)
(* health_check_all.                                                       *)
(***************************************************************************)
\* What the GET of /health may come to: a status, an exception of the
\* request, or the ClientTimeout(total=10) running out.
ProbeOutcomes == {"200", "503", "error", "timeout"}
ProbeMaps == [OperatorCodes -> ProbeOutcomes]

\* adapter.health_check(): response.status == 200, False on any exception.
HealthCheckErrorIsHealthy(session_state, probe) ==
    IF session_state = "open" /\ probe \in {"200", "503"}
    THEN probe = "200"
    ELSE TRUE
HealthCheck(session_state, probe) == session_state = "open" /\ probe = "200"

\* The dict health_check_all builds: one entry per registered adapter, the
\* bool its health_check returned ("absent": no key for that code).
HealthResults(probes) ==
    [c \in OperatorCodes |->
        IF \E i \in 1..Len(adapters) : adapters[i].code = c
        THEN LET a == CHOOSE a \in {adapters[i] : i \in 1..Len(adapters)} :
                          a.code = c
             IN IF HealthCheck(sessions[a.session], probes[c])
                THEN "healthy" ELSE "unhealthy"
        ELSE "absent"]

\* health_check_all with the probes coming to `probes`: the dict is built
\* anew on every call, nothing of an earlier call is read.
HealthCheckAllSticky(probes) ==
    /\ UNCHANGED <<booking, app_vars>>
    /\ health_report' =
           [c \in OperatorCodes |->
               IF health_report[c] = "unhealthy" THEN "unhealthy"
               ELSE HealthResults(probes)[c]]
    /\ UNCHANGED <<adapters, session, sessions, pc, tasks, completion, ret,
                   close_pc>>
HealthCheckAllWith(probes) ==
    /\ UNCHANGED <<booking, app_vars>>
    /\ health_report' = HealthResults(probes)
    /\ UNCHANGED <<adapters, session, sessions, pc, tasks, completion, ret,
                   close_pc>>

HealthCheckAll == \E probes \in ProbeMaps : HealthCheckAllWith(probes)

(***************************************************************************)
(* create_booking.                                                         *)
(***************************************************************************)
\* What the POST of /bookings may come to: a status or an exception.
BookingOutcomes == {"201", "500", "error"}

\* The codes a caller may ask for: the operators and one nobody registers.
BookingCodes == OperatorCodes \cup {"XXX"}

\* adapter.create_booking: the Lyko adapter returns the decoded body on 200
\* or 201 and an error dict otherwise, its own `except Exception` included;
\* the CTN adapter inherits the base method, which raises
\* NotImplementedError.
AdapterCreateBooking(kind, session_state, outcome) ==
    IF kind = "ctn" THEN [raised |-> TRUE, result |-> "none"]
    ELSE IF session_state = "open" /\ outcome = "201"
         THEN [raised |-> FALSE, result |-> "booking"]
         ELSE [raised |-> FALSE, result |-> "error"]

\* except Exception of the service: log and return {"error": str(e)}.
OnBookingErrorReraise == [raised |-> TRUE, result |-> "none"]
OnBookingError == [raised |-> FALSE, result |-> "error"]

\* The value of create_booking(operator_code, booking_data).
BookingResult(operator_code, outcome) ==
    IF ~\E i \in 1..Len(adapters) : adapters[i].code = operator_code
    THEN [raised |-> FALSE, result |-> "error"]
    ELSE LET a == CHOOSE a \in {adapters[i] : i \in 1..Len(adapters)} :
                      a.code = operator_code
             r == AdapterCreateBooking(a.kind, sessions[a.session], outcome)
         IN IF r.raised THEN OnBookingError ELSE r

CreateBooking(operator_code, outcome) ==
    /\ booking' = [operator_code |-> operator_code,
                   raised |-> BookingResult(operator_code, outcome).raised,
                   result |-> BookingResult(operator_code, outcome).result]
    /\ UNCHANGED <<adapters, session, sessions, pc, tasks, completion, ret,
                   close_pc, health_report, app_vars>>

(***************************************************************************)
(* PaymentService.create_payment (src/app/services/payment_service.py).    *)
(* A customer_email is the tuple of its characters; an amount is a Decimal *)
(* written as an integer; return_url "" stands for None or "".             *)
(***************************************************************************)
PaymentMethods ==
    {"stripe_card", "stripe_sepa", "paypal", "paypal_pay_later", "bank_transfer"}
Currencies == {"EUR", "TND"}
PaymentEmails == {<<"a", "@", "b">>, <<"a", "b">>, <<>>}

PaymentRequests ==
    [amount : {-1, 0, 5}, currency : Currencies, payment_method : PaymentMethods,
     customer_email : PaymentEmails, return_url : {"", "https://example.com/ok"}]

\* What the gateway makes of a request it is sent.
GatewayOutcomes == {"accepted", "refused"}

\* validate_payment_data: amount > 0, "@" in customer_email, currency in
\* Currency.
ValidateAmountOnly(payment_request) == payment_request.amount > 0
ValidatePaymentData(payment_request) ==
    IF payment_request.amount <= 0 THEN FALSE
    ELSE IF ~\E k \in 1..Len(payment_request.customer_email) :
                 payment_request.customer_email[k] = "@" THEN FALSE
    ELSE IF payment_request.currency \notin Currencies THEN FALSE
    ELSE TRUE

\* self.processors.get(payment_method): no entry for BANK_TRANSFER.
Processor(method) ==
    IF method \in {"stripe_card", "stripe_sepa"} THEN "stripe"
    ELSE IF method \in {"paypal", "paypal_pay_later"} THEN "paypal"
    ELSE "none"

\* The PaymentResponse of the two early returns.
FailedResponse(payment_request, message) ==
    [payment_id |-> "", status |-> "failed", amount |-> payment_request.amount,
     currency |-> payment_request.currency, error_message |-> message]

\* Lines 417-424: the gateway operation create_payment awaits.
GatewayOperationIntentOnly(payment_request) ==
    IF payment_request.payment_method \in {"stripe_card", "stripe_sepa"}
    THEN "stripe.create_payment_intent"
    ELSE "paypal.create_payment"
GatewayOperation(payment_request) ==
    IF payment_request.payment_method \in {"stripe_card", "stripe_sepa"}
    THEN IF payment_request.return_url # ""
         THEN "stripe.create_checkout_session"
         ELSE "stripe.create_payment_intent"
    ELSE "paypal.create_payment"

\* The PaymentResponse of a gateway operation: PENDING with the id the
\* gateway gave, or FAILED with an empty id where Stripe raised a
\* StripeError.  The PayPal processor builds its id itself.
GatewayResponse(operation, payment_request, outcome) ==
    IF operation # "paypal.create_payment" /\ outcome = "refused"
    THEN FailedResponse(payment_request, "stripe error")
    ELSE [payment_id |-> operation, status |-> "pending",
          amount |-> payment_request.amount,
          currency |-> payment_request.currency, error_message |-> ""]

\* create_payment: what it calls and what it returns.
CreatePaymentResult(payment_request, outcome) ==
    IF ~ValidatePaymentData(payment_request)
    THEN [calls |-> <<>>,
          response |-> FailedResponse(payment_request, "Invalid payment data")]
    ELSE IF Processor(payment_request.payment_method) = "none"
    THEN [calls |-> <<>>,
          response |-> FailedResponse(payment_request,
                                      "Unsupported payment method")]
    ELSE LET operation == GatewayOperation(payment_request)
         IN [calls |-> <<[operation |-> operation,
                          response |-> GatewayResponse(operation,
                                           payment_request, outcome)]>>,
             response |-> GatewayResponse(operation, payment_request, outcome)]

CreatePayment(payment_request, outcome) ==
    /\ payment' = [state |-> "returned", request |-> payment_request,
                   calls |-> CreatePaymentResult(payment_request, outcome).calls,
                   response |->
                       CreatePaymentResult(payment_request, outcome).response]
    /\ UNCHANGED <<adapters, session, sessions, pc, tasks, completion, ret,
                   close_pc, health_report, booking, users, auth, db>>

(***************************************************************************)
(* The auth endpoints (src/app/api/v1/endpoints/auth.py) over the users    *)
(* table.  AuthService and UserService are called through their methods:   *)
(* get_user_by_email finds the row of an email, create_user inserts a row  *)
(* with the column defaults, authenticate_user returns the row when the    *)
(* password verifies, create_user_session and update_login_stats write     *)
(* the session and the login counter of the row.  A request is logged in   *)
(* auth with its input and its response.                                   *)
(***************************************************************************)
UserEmails == {"a@x.io", "b@x.io"}

\* A users row: account_status "active" is is_active, locked is is_locked
\* (locked_until in the future); sessions counts its UserSession rows.
NewUser(email) ==
    [email |-> email, account_status |-> "active", locked |-> FALSE,
     email_verified |-> FALSE, sessions |-> 0, login_count |-> 0]

UserRows ==
    [email : UserEmails, account_status : {"active", "suspended"},
     locked : BOOLEAN, email_verified : BOOLEAN, sessions : {0},
     login_count : {0}]

\* User.email is unique: a table holds an email once.
UserTables ==
    {t \in {<<>>} \cup {<<u>> : u \in UserRows}
                  \cup {<<u1, u2>> : u1 \in UserRows, u2 \in UserRows} :
        \A i \in 1..Len(t) : \A j \in 1..Len(t) :
            t[i].email = t[j].email => i = j}

\* user_service.get_user_by_email(email): the index of the row, 0 for None.
GetUserByEmail(email) ==
    IF \E k \in 1..Len(users) : users[k].email = email
    THEN CHOOSE k \in 1..Len(users) : users[k].email = email
    ELSE 0

\* register_user up to the await of create_user: an existing user is a 400.
RegisterWithoutCheck(email) ==
    /\ Len(auth) < MaxRequests
    /\ auth' = Append(auth, [endpoint |-> "register", email |-> email,
                             credentials |-> FALSE, pc |-> "create",
                             status |-> 0, message |-> ""])
    /\ UNCHANGED <<adapters, session, sessions, pc, tasks, completion, ret,
                   close_pc, health_report, booking, payment, users, db>>
RegisterCheck(email) ==
    /\ Len(auth) < MaxRequests
    /\ auth' = Append(auth,
           IF GetUserByEmail(email) # 0
           THEN [endpoint |-> "register", email |-> email,
                 credentials |-> FALSE, pc |-> "done", status |-> 400,
                 message |-> "User with this email already exists"]
           ELSE [endpoint |-> "register", email |-> email,
                 credentials |-> FALSE, pc |-> "create", status |-> 0,
                 message |-> ""])
    /\ UNCHANGED <<adapters, session, sessions, pc, tasks, completion, ret,
                   close_pc, health_report, booking, payment, users, db>>

\* register_user from create_user on: the row is inserted and returned
\* with 201; where the unique index on users.email refuses the insert,
\* `except Exception` answers 500.
RegisterCreate(i) ==
    /\ i \in 1..Len(auth)
    /\ auth[i].endpoint = "register"
    /\ auth[i].pc = "create"
    /\ IF GetUserByEmail(auth[i].email) # 0
       THEN /\ auth' = [auth EXCEPT ![i].pc = "done", ![i].status = 500,
                                    ![i].message = "Registration failed"]
            /\ UNCHANGED users
       ELSE /\ auth' = [auth EXCEPT ![i].pc = "done", ![i].status = 201]
            /\ users' = Append(users, NewUser(auth[i].email))
    /\ UNCHANGED <<adapters, session, sessions, pc, tasks, completion, ret,
                   close_pc, health_report, booking, payment, db>>

\* login_user: the status it answers with for the row authenticate_user
\* returned (0: None).
LoginStatusNoLockCheck(user) ==
    IF user = 0 THEN 401
    ELSE IF users[user].account_status # "active" THEN 403
    ELSE 200
LoginStatus(user) ==
    IF user = 0 THEN 401
    ELSE IF users[user].locked THEN 423
    ELSE IF users[user].account_status # "active" THEN 403
    ELSE 200

\* auth_service.authenticate_user(email, password).
AuthenticateUser(email, credentials) ==
    IF credentials THEN GetUserByEmail(email) ELSE 0

\* login_user: on 200 a session is created and the login statistics are
\* updated.
Login(email, credentials) ==
    /\ Len(auth) < MaxRequests
    /\ LET user == AuthenticateUser(email, credentials)
           status == LoginStatus(user)
       IN /\ auth' = Append(auth, [endpoint |-> "login", email |-> email,
                                   credentials |-> credentials, pc |-> "done",
                                   status |-> status,
                                   message |-> IF status = 200 THEN "tokens"
                                                               ELSE ""])
          /\ users' = IF status = 200
                      THEN [users EXCEPT
                               ![user].sessions = @ + 1,
                               ![user].login_count = @ + 1]
                      ELSE users
    /\ UNCHANGED <<adapters, session, sessions, pc, tasks, completion, ret,
                   close_pc, health_report, booking, payment, db>>

\* forgot_password: the message for the row get_user_by_email returned.
ForgotPasswordMessage(user) ==
    IF user = 0
    THEN "If the email exists, a password reset link has been sent"
    ELSE "Password reset link sent"

ForgotPassword(email) ==
    /\ Len(auth) < MaxRequests
    /\ auth' = Append(auth, [endpoint |-> "forgot_password", email |-> email,
                             credentials |-> FALSE, pc |-> "done",
                             status |-> 200,
                             message |->
                                 ForgotPasswordMessage(GetUserByEmail(email))])
    /\ UNCHANGED <<adapters, session, sessions, pc, tasks, completion, ret,
                   close_pc, health_report, booking, payment, users, db>>

\* resend_verification_email: the message for the row get_user_by_email
\* returned.
ResendVerificationMessage(user) ==
    IF user = 0
    THEN "If the email exists, a verification link has been sent"
    ELSE IF users[user].email_verified THEN "Email is already verified"
    ELSE "Verification email sent"

ResendVerificationEmail(email) ==
    /\ Len(auth) < MaxRequests
    /\ auth' = Append(auth, [endpoint |-> "resend_verification", email |-> email,
                             credentials |-> FALSE, pc |-> "done",
                             status |-> 200,
                             message |->
                                 ResendVerificationMessage(GetUserByEmail(email))])
    /\ UNCHANGED <<adapters, session, sessions, pc, tasks, completion, ret,
                   close_pc, health_report, booking, payment, users, db>>

(***************************************************************************)
(* get_db (src/app/db/session.py): one AsyncSession per request.  db holds *)
(* the sessions handed out, each with the place its generator is at and    *)
(* what was called on it; requests run interleaved at their awaits.        *)
(***************************************************************************)
\* async with AsyncSessionLocal() as session: ... yield session
NewSession ==
    [pc |-> "handler", state |-> "open", handler |-> "running",
     pending |-> "none", commits |-> 0, committed |-> FALSE, rollbacks |-> 0,
     close_calls |-> 0, closed_times |-> 0, raised |-> "none"]

GetDb ==
    /\ Len(db) < MaxRequests
    /\ db' = Append(db, NewSession)
    /\ UNCHANGED <<adapters, session, sessions, pc, tasks, completion, ret,
                   close_pc, health_report, booking, payment, users, auth>>

\* Where the generator goes when the handler's exception is thrown into it
\* at the yield: `except Exception` takes it to the rollback.
OnHandlerExceptionNoRollback == "finally"
OnHandlerException == "rollback"

\* The request handler ends: the generator is resumed after the yield, or
\* the handler's exception is thrown into it.
HandlerEnd(i, outcome) ==
    /\ i \in 1..Len(db)
    /\ db[i].pc = "handler"
    /\ db' = [db EXCEPT ![i] =
           IF outcome = "returned"
           THEN [@ EXCEPT !.handler = "returned", !.pc = "commit"]
           ELSE [@ EXCEPT !.handler = "exception", !.pending = "handler",
                          !.raised = "handler", !.pc = OnHandlerException]]
    /\ UNCHANGED <<adapters, session, sessions, pc, tasks, completion, ret,
                   close_pc, health_report, booking, payment, users, auth>>

\* await session.commit(); its exception goes to the same except clause.
Commit(i, ok) ==
    /\ i \in 1..Len(db)
    /\ db[i].pc = "commit"
    /\ db' = [db EXCEPT ![i] =
           IF ok
           THEN [@ EXCEPT !.commits = @ + 1, !.committed = TRUE,
                          !.pc = "finally"]
           ELSE [@ EXCEPT !.commits = @ + 1, !.pending = "commit",
                          !.raised = "commit", !.pc = "rollback"]]
    /\ UNCHANGED <<adapters, session, sessions, pc, tasks, completion, ret,
                   close_pc, health_report, booking, payment, users, auth>>

\* await session.rollback(), then the bare `raise`; an exception of the
\* rollback itself replaces the one being handled.
Rollback(i, ok) ==
    /\ i \in 1..Len(db)
    /\ db[i].pc = "rollback"
    /\ db' = [db EXCEPT ![i] =
           [@ EXCEPT !.rollbacks = @ + 1,
                     !.raised = IF ok THEN db[i].pending ELSE "rollback",
                     !.pc = "finally"]]
    /\ UNCHANGED <<adapters, session, sessions, pc, tasks, completion, ret,
                   close_pc, health_report, booking, payment, users, auth>>

\* session.close(): releases an open session, does nothing to a closed one.
SessionClose(s) ==
    [s EXCEPT !.close_calls = @ + 1, !.state = "closed",
              !.closed_times = IF s.state = "open" THEN @ + 1 ELSE @]

\* finally: await session.close()
FinallyClose(i) ==
    /\ i \in 1..Len(db)
    /\ db[i].pc = "finally"
    /\ db' = [db EXCEPT ![i] = [SessionClose(@) EXCEPT !.pc = "exit"]]
    /\ UNCHANGED <<adapters, session, sessions, pc, tasks, completion, ret,
                   close_pc, health_report, booking, payment, users, auth>>

\* The end of the `async with` block: AsyncSession.__aexit__ calls close()
\* again; the request ends, with the exception in raised if there is one.
ContextExit(i) ==
    /\ i \in 1..Len(db)
    /\ db[i].pc = "exit"
    /\ db' = [db EXCEPT ![i] = [SessionClose(@) EXCEPT !.pc = "ended"]]
    /\ UNCHANGED <<adapters, session, sessions, pc, tasks, completion, ret,
                   close_pc, health_report, booking, payment, users, auth>>

NextDb ==
    \/ GetDb
    \/ \E i \in 1..Len(db) : \E o \in {"returned", "exception"} : HandlerEnd(i, o)
    \/ \E i \in 1..Len(db) : \E ok \in BOOLEAN : Commit(i, ok)
    \/ \E i \in 1..Len(db) : \E ok \in BOOLEAN : Rollback(i, ok)
    \/ \E i \in 1..Len(db) : FinallyClose(i)
    \/ \E i \in 1..Len(db) : ContextExit(i)

(***************************************************************************)
(* The service from construction on.                                       *)
(***************************************************************************)
T0700 == <<0, 7, 0, 0>>
T0800 == <<0, 8, 0, 0>>
T900 == <<9, 0, 0>>

\* What a backend may answer to one search.
Responses ==
    { NetError,
      Http(503, NoBody),
      Http(200, NoBody),
      Http(200, ListBody(<<Entry("", "r1", T0800, Num(5), Num(10))>>)),
      Http(200, ListBody(<<Entry("", "r2", T0700, Num(5), Num(20)),
                           Entry("", "r3", T0700, Num(5), Text),
                           Entry("", "r4", T0700, Num(5), NumStr(10))>>)) }

Init ==
    /\ AppInit
    /\ adapters = <<>>
    /\ session = 0
    /\ sessions = <<>>
    /\ pc = "idle"
    /\ tasks = <<>>
    /\ completion = <<>>
    /\ ret = <<>>
    /\ close_pc = "idle"
    /\ health_report = [c \in OperatorCodes |-> "absent"]

Next ==
    \/ \E operators \in OperatorLists : Initialize(operators)
    \/ CloseSession
    \/ CloseClear
    \/ StartSearch
    \/ \E i \in 1..Len(tasks) : TaskComplete(i, Responses)
    \/ \E i \in 1..Len(tasks) : SearchNeverCompletes(i)
    \/ GatherFinish
    \/ SearchReturn

Spec == Init /\ [][Next]_vars

\* The same service with health_check_all called at any moment.
NextHealth == Next \/ HealthCheckAll

SpecHealth == Init /\ [][NextHealth]_vars

\* The event loop runs every task that can run, resumes the gather once its
\* tasks are done and close() once the session is closed; a caller takes the
\* value returned.
Fairness ==
    /\ \A i \in 1..Cardinality(OperatorCodes) :
           WF_vars(TaskComplete(i, Responses))
    /\ WF_vars(GatherFinish)
    /\ WF_vars(SearchReturn)
    /\ WF_vars(CloseClear)

SpecFair == Init /\ [][Next]_vars /\ Fairness

\* The registry alone: initialize on every list of rows, those on which an
\* adapter cannot be built included, and close.
NextRegistry ==
    \/ \E operators \in RegistryLists : Initialize(operators)
    \/ CloseSession
    \/ CloseClear

SpecRegistry == Init /\ [][NextRegistry]_vars

\* The registry with health_check_all called at any moment.
NextProbe ==
    \/ \E operators \in OperatorLists : Initialize(operators)
    \/ CloseSession
    \/ CloseClear
    \/ HealthCheckAll

SpecProbe == Init /\ [][NextProbe]_vars

\* The payment service on every request and gateway outcome.
NextPayment ==
    \E r \in PaymentRequests : \E o \in GatewayOutcomes : CreatePayment(r, o)

SpecPayment == Init /\ [][NextPayment]_vars

\* Every users table, no request made yet.
InitAccounts ==
    /\ adapters = <<>>
    /\ session = 0
    /\ sessions = <<>>
    /\ pc = "idle"
    /\ tasks = <<>>
    /\ completion = <<>>
    /\ ret = <<>>
    /\ close_pc = "idle"
    /\ health_report = [c \in OperatorCodes |-> "absent"]
    /\ booking = NoBooking
    /\ payment = NoPayment
    /\ users \in UserTables
    /\ auth = NoAuth
    /\ db = NoDb

\* Registrations, any number of them under way at once: the handler awaits
\* between its check and create_user.
NextRegister ==
    \/ \E e \in UserEmails : RegisterCheck(e)
    \/ \E i \in 1..Len(auth) : RegisterCreate(i)

SpecRegister == InitAccounts /\ [][NextRegister]_vars

\* Requests that only take a database session.
SpecDb == Init /\ [][NextDb]_vars

\* Logins and account-recovery requests.
NextAccounts ==
    \/ \E e \in UserEmails : \E c \in BOOLEAN : Login(e, c)
    \/ \E e \in UserEmails : ForgotPassword(e)
    \/ \E e \in UserEmails : ResendVerificationEmail(e)

SpecAccounts == InitAccounts /\ [][NextAccounts]_vars

\* The registry with create_booking called at any moment.
NextBooking ==
    \/ \E operators \in OperatorLists : Initialize(operators)
    \/ CloseSession
    \/ CloseClear
    \/ \E c \in BookingCodes : \E o \in BookingOutcomes : CreateBooking(c, o)

SpecBooking == Init /\ [][NextBooking]_vars

(***************************************************************************)
(* One adapter answering one search: search_routes on every response with  *)
(* up to MaxEntries entries.                                               *)
(***************************************************************************)
SeqsUpTo(S, n) == UNION {[1..k -> S] : k \in 0..n}

RawEntries ==
    { Entry("", "r1", T0800, Num(5), Num(10)),
      Entry("COR", "r2", T0700, Absent, NumStr(20)),
      Entry("", "r3", T900, Num(0), Absent),
      Entry("", "r4", T0700, Num(5), Text),
      Entry("", "r5", T0700, Num(5), Null),
      Entry("", "r6", T0700, Num(-1), Num(-5)),
      Scalar }

AdapterResponses ==
    { NetError,
      Http(503, NoBody),
      Http(204, ListBody(<<Entry("", "r1", T0800, Num(5), Num(10))>>)),
      Http(200, NoBody),
      Http(200, [json |-> "array", list |-> "absent", items |-> <<>>]),
      Http(200, [json |-> "object", list |-> "null", items |-> <<>>]),
      Http(200, [json |-> "object", list |-> "absent", items |-> <<>>]) }
    \cup {Http(200, ListBody(items)) : items \in SeqsUpTo(RawEntries, MaxEntries)}

RegisteredAlone ==
    { CreateAdapter(o, 1) :
          o \in {c \in OperatorRows(ConfiguredTimeouts, {FALSE}) : c.is_active} }

InitAdapter ==
    /\ AppInit
    /\ \E a \in RegisteredAlone :
           /\ adapters = <<a>>
           /\ tasks = <<CreateTask(a)>>
    /\ session = 1
    /\ sessions = <<"open">>
    /\ pc = "gather"
    /\ completion = <<>>
    /\ ret = <<>>
    /\ close_pc = "idle"
    /\ health_report = [c \in OperatorCodes |-> "absent"]

NextAdapter == TaskComplete(1, AdapterResponses)

SpecAdapter == InitAdapter /\ [][NextAdapter]_vars

(***************************************************************************)
(* The merge of search_all_operators on every pair of result lists of up   *)
(* to MaxResults results: a CTN and a Lyko adapter, both tasks done.       *)
(***************************************************************************)
MergeEntries ==
    { Entry("", "r1", d, Num(5), Num(p)) : d \in {T0700, T900}, p \in {10, 20} }
    \cup { Entry("", "r2", T0700, Num(5), Num(10)) }

MergeResponses ==
    {Http(200, ListBody(items)) : items \in SeqsUpTo(MergeEntries, MaxResults)}

DoneTask(adapter, response) ==
    [CreateTask(adapter) EXCEPT
        !.state = "done", !.response = response,
        !.timeout = ClientTimeout(adapter),
        !.routes = SearchRoutes(adapter.kind, adapter.code, "open", response)]

InitMerge ==
    /\ AppInit
    /\ adapters = <<[code |-> "CTN", kind |-> "ctn", session |-> 1,
                     api_timeout_seconds |-> DefaultTimeoutSeconds],
                    [code |-> "GNV", kind |-> "lyko", session |-> 1,
                     api_timeout_seconds |-> DefaultTimeoutSeconds]>>
    /\ session = 1
    /\ sessions = <<"open">>
    /\ pc = "gather"
    /\ \E r1 \in MergeResponses : \E r2 \in MergeResponses :
           tasks = <<DoneTask(adapters[1], r1), DoneTask(adapters[2], r2)>>
    /\ completion \in {<<1, 2>>, <<2, 1>>}
    /\ ret = <<>>
    /\ close_pc = "idle"
    /\ health_report = [c \in OperatorCodes |-> "absent"]

NextMerge == GatherFinish

SpecMerge == InitMerge /\ [][NextMerge]_vars

(***************************************************************************)
(* Searches and health checks of a service with a CTN and a Lyko adapter   *)
(* registered, in any order and with any outcome.                          *)
(***************************************************************************)
InitRecovery ==
    /\ AppInit
    /\ adapters = <<[code |-> "CTN", kind |-> "ctn", session |-> 1,
                     api_timeout_seconds |-> DefaultTimeoutSeconds],
                    [code |-> "GNV", kind |-> "lyko", session |-> 1,
                     api_timeout_seconds |-> DefaultTimeoutSeconds]>>
    /\ session = 1
    /\ sessions = <<"open">>
    /\ pc = "idle"
    /\ tasks = <<>>
    /\ completion = <<>>
    /\ ret = <<>>
    /\ close_pc = "idle"
    /\ health_report = [c \in OperatorCodes |-> "absent"]

NextRecovery ==
    \/ StartSearch
    \/ \E i \in 1..Len(tasks) : TaskComplete(i, Responses)
    \/ GatherFinish
    \/ SearchReturn
    \/ HealthCheckAll

SpecRecovery == InitRecovery /\ [][NextRecovery]_vars

(***************************************************************************)
(* Properties.                                                             *)
(***************************************************************************)
CountIn(s, x) == Cardinality({k \in 1..Len(s) : s[k] = x})
Elements(s) == {s[k] : k \in 1..Len(s)}
Succeeded(t) == t.state = "done" /\ t.routes.how = "ok"
Failed(t) == t.state = "done" /\ t.routes.how # "ok"

\* C1: the list search_all_operators returns is sorted non-decreasing by base
\* price and, among results of equal price, non-decreasing by departure time.
C1_SortedByPriceThenDeparture ==
    pc = "done" =>
        \A i \in 1..Len(ret) : \A j \in 1..Len(ret) :
            i < j =>
                \/ ret[i].base_price < ret[j].base_price
                \/ /\ ret[i].base_price = ret[j].base_price
                   /\ ~StrLess(ret[j].departure_time, ret[i].departure_time)

\* A returned list of at least three results that the adapters did not hand
\* over in order, holding a price tie broken by departure time.
C1_Witness ==
    /\ pc = "done"
    /\ Len(ret) >= 3
    /\ ret # tasks[1].routes.value \o tasks[2].routes.value
    /\ \E i \in 1..(Len(ret) - 1) :
           /\ ret[i].base_price = ret[i + 1].base_price
           /\ StrLess(ret[i].departure_time, ret[i + 1].departure_time)
    /\ \E i \in 1..(Len(ret) - 1) : ret[i].base_price < ret[i + 1].base_price

RECURSIVE SucceededCount(_, _)
SucceededCount(ts, x) ==
    IF ts = <<>> THEN 0
    ELSE (IF Succeeded(Head(ts)) THEN CountIn(Head(ts).routes.value, x) ELSE 0)
         + SucceededCount(Tail(ts), x)

OutcomeMap(value) == [c \in {} |-> "succeeded"]

\* C3: when exactly one adapter throws inside its search, the returned
\* response's outcome map marks that operator "failed" and every other
\* dispatched operator "succeeded".
C3_OutcomeMapMarksFailure ==
    ( /\ pc = "done"
      /\ Cardinality({i \in 1..Len(tasks) :
                         tasks[i].routes.how = "exception"}) = 1 )
    => \A i \in 1..Len(tasks) :
           /\ tasks[i].code \in DOMAIN OutcomeMap(ret)
           /\ OutcomeMap(ret)[tasks[i].code] =
                  IF tasks[i].routes.how = "exception" THEN "failed"
                                                       ELSE "succeeded"

CompletionOrders(n) ==
    {p \in [1..n -> 1..n] : \A a \in 1..n : \A b \in 1..n : p[a] = p[b] => a = b}

\* C4: the returned list is the one the same tasks with the same results
\* yield under every order of completion, and no result of a higher price
\* precedes one of a lower price.
C4_CompletionOrderIrrelevant ==
    pc = "done" =>
        /\ \A order \in CompletionOrders(Len(tasks)) :
               ret = SortResults(Flatten(Gather(tasks, order).results))
        /\ \A i \in 1..Len(ret) : \A j \in 1..Len(ret) :
               ret[i].base_price < ret[j].base_price => i < j

\* The second task finished first; the results tie on price and departure
\* across the adapters and a dearer result was handed over before a cheaper.
C4_Witness ==
    /\ pc = "done"
    /\ completion = <<2, 1>>
    /\ Len(ret) = 4
    /\ \E i \in 1..3 :
           /\ ret[i].base_price = ret[i + 1].base_price
           /\ ret[i].departure_time = ret[i + 1].departure_time
           /\ ret[i].operator_code # ret[i + 1].operator_code
    /\ ret[4].base_price > ret[1].base_price

\* C5: with no adapter registered the call returns the empty list at once:
\* it creates no task, never waits, and does not raise.
C5_EmptyRegistryReturnsEmpty ==
    /\ pc = "gather" => tasks # <<>>
    /\ (pc # "idle" /\ tasks = <<>>) => (pc = "done" /\ ret = <<>>)

\* A search on a closed service returned.
C5_Witness ==
    /\ pc = "done"
    /\ tasks = <<>>
    /\ adapters = <<>>
    /\ session # 0
    /\ sessions[session] = "closed"
    /\ close_pc = "idle"

\* C6: when every registered adapter fails (exception, non-200 status, timed
\* out request), the call returns the empty list normally and does not raise.
C6_AllFailedReturnsEmpty ==
    ( /\ pc \in {"done", "raised"}
      /\ tasks # <<>>
      /\ \A i \in 1..Len(tasks) : Failed(tasks[i]) )
    => (pc = "done" /\ ret = <<>>)

\* Two adapters, one answered with a non-200 status and one raised.
C6_Witness ==
    /\ pc = "done"
    /\ Len(tasks) = 2
    /\ tasks[1].routes.how = "status"
    /\ tasks[2].routes.how = "exception"
    /\ tasks[2].response.net = "error"
    /\ ret = <<>>

\* An entry the mapping step can convert: a JSON object whose price is absent,
\* a number, or a string that spells a number.
WellFormed(item) ==
    /\ item.kind = "object"
    /\ item.price.t \in {"absent", "number", "numeric_string"}

IsEntryList(response) ==
    /\ response.net = "ok"
    /\ response.status = 200
    /\ response.body.json = "object"
    /\ response.body.list = "list"

\* C7: from a response with k well-formed and m malformed entries the mapping
\* step returns exactly the k well-formed ones, in their order, and none of
\* the malformed ones.
C7_MalformedEntriesSkipped ==
    \A i \in 1..Len(tasks) :
        (tasks[i].state = "done" /\ IsEntryList(tasks[i].response)) =>
            LET kept == SelectSeq(tasks[i].response.body.items, WellFormed)
                out == tasks[i].routes.value
            IN /\ Len(out) = Len(kept)
               /\ \A k \in 1..Len(kept) :
                      /\ out[k].route_id = kept[k].route_id
                      /\ out[k].departure_time = kept[k].departure
                      /\ out[k].base_price = kept[k].price.v

\* Three well-formed entries around one with an unparseable price gave three
\* results.
C7_Witness ==
    /\ tasks[1].state = "done"
    /\ IsEntryList(tasks[1].response)
    /\ Len(tasks[1].response.body.items) = 4
    /\ ~WellFormed(tasks[1].response.body.items[2])
    /\ Len(SelectSeq(tasks[1].response.body.items, WellFormed)) = 3
    /\ Len(tasks[1].routes.value) = 3

\* A response that fails as a whole: no exchange, a status other than 200, a
\* body that is not JSON, not an object, or whose result list is null.
WholeFailure(response) ==
    \/ response.net = "error"
    \/ response.status # 200
    \/ response.body.json # "object"
    \/ response.body.list = "null"

\* C8: search_routes never propagates an exception, and on a transport
\* failure, a non-200 status or a whole-response parse failure it returns [].
C8_SearchRoutesNeverRaises ==
    \A i \in 1..Len(tasks) :
        tasks[i].state = "done" =>
            /\ ~tasks[i].routes.raised
            /\ WholeFailure(tasks[i].response) => tasks[i].routes.value = <<>>

\* A 200 response whose body is JSON but not an object was answered by [].
C8_Witness ==
    /\ tasks[1].state = "done"
    /\ tasks[1].response.net = "ok"
    /\ tasks[1].response.status = 200
    /\ tasks[1].response.body.json = "array"
    /\ tasks[1].routes.value = <<>>
    /\ ~tasks[1].routes.raised

\* C9: a search dispatches no task to an adapter that the health status marks
\* unhealthy.
C9_UnhealthyNotDispatched ==
    [][ (pc = "idle" /\ pc' = "gather") =>
            \A i \in 1..Len(tasks') :
                health_report[tasks'[i].code] # "unhealthy" ]_vars

C11_SearchBoundedByOperatorTimeout ==
    \A i \in 1..Len(tasks) :
        tasks[i].state = "done" =>
            tasks[i].timeout = tasks[i].api_timeout_seconds

(***************************************************************************)
(* C12: on a fresh service (nothing initialized yet) initialize(configs)   *)
(* leaves in the registry exactly one adapter for every config that is     *)
(* active and whose adapter could be built, under the config's operator    *)
(* code and in the order of the list; nothing is built for an inactive     *)
(* config.                                                                 *)
(***************************************************************************)
Registrable(o) == o.is_active /\ ~o.adapter_error

C12_FreshInitializeRegistersActive ==
    [][(sessions = <<>> /\ adapters = <<>>) =>
          \A ops \in RegistryLists :
              Initialize(ops) =>
                  LET want == SelectSeq(ops, Registrable)
                  IN /\ Len(adapters') = Len(want)
                     /\ \A k \in 1..Len(want) :
                            /\ adapters'[k].code = want[k].code
                            /\ adapters'[k] = CreateAdapter(want[k], session')]_vars

\* One initialize was made and the registry holds a single adapter.
C12_Witness ==
    /\ Len(sessions) = 1
    /\ close_pc = "idle"
    /\ sessions[1] = "open"
    /\ Len(adapters) = 1

(***************************************************************************)
(* C13: after initialize(configs), no operator that is inactive in configs *)
(* has an adapter in the registry, whatever an earlier initialize had      *)
(* registered.                                                             *)
(***************************************************************************)
C13_InactiveOperatorNotRegistered ==
    [][\A ops \in RegistryLists :
          Initialize(ops) =>
              \A k \in 1..Len(ops) :
                  ~ops[k].is_active =>
                      \A i \in 1..Len(adapters') :
                          adapters'[i].code # ops[k].code]_vars

(***************************************************************************)
(* C14: after initialize(configs) in which the adapter of an active config *)
(* could not be built, that operator has no adapter in the registry and    *)
(* every other active config has the adapter built from it.                *)
(***************************************************************************)
C14_FailedConstructionIsolated ==
    [][\A ops \in RegistryLists :
          Initialize(ops) =>
              \A k \in 1..Len(ops) :
                  /\ (ops[k].is_active /\ ops[k].adapter_error) =>
                         \A i \in 1..Len(adapters') :
                             adapters'[i].code # ops[k].code
                  /\ Registrable(ops[k]) =>
                         \E i \in 1..Len(adapters') :
                             adapters'[i] = CreateAdapter(ops[k], session')]_vars

(***************************************************************************)
(* C15: once close() has finished and no initialize followed it (the       *)
(* current session is the closed one), every session that an initialize    *)
(* opened is closed.                                                       *)
(***************************************************************************)
C15_NoSessionLeakedAfterClose ==
    (close_pc = "idle" /\ session # 0 /\ sessions[session] = "closed") =>
        \A i \in 1..Len(sessions) : sessions[i] = "closed"

(***************************************************************************)
(* C16: the map health_check_all returns has an entry, healthy or          *)
(* unhealthy, for exactly the registered adapters; an adapter whose probe  *)
(* raised or timed out, or whose session is closed, is unhealthy; and the  *)
(* entry of an adapter is the same whatever the probes of the others came  *)
(* to.                                                                     *)
(***************************************************************************)
Registered(c) == \E i \in 1..Len(adapters) : adapters[i].code = c

C17_SuccessfulProbeReportsHealthy ==
    [][\A probes \in ProbeMaps :
          HealthCheckAllWith(probes) =>
              \A i \in 1..Len(adapters) :
                  (/\ probes[adapters[i].code] = "200"
                   /\ sessions[adapters[i].session] = "open") =>
                      health_report'[adapters[i].code] = "healthy"]_vars

\* CTN is reported healthy while the search under way has already seen its
\* request to CTN fail.
C17_Witness ==
    /\ health_report["CTN"] = "healthy"
    /\ health_report["GNV"] = "unhealthy"
    /\ \E i \in 1..Len(tasks) :
           /\ tasks[i].code = "CTN"
           /\ tasks[i].state = "done"
           /\ tasks[i].routes.how = "exception"

(***************************************************************************)
(* C18: among the results of one adapter that have the same base price     *)
(* and the same departure time, the merged list keeps the order in which   *)
(* the adapter returned them.                                              *)
(***************************************************************************)
C18_TiesOfOneAdapterKeepOrder ==
    pc = "done" =>
        \A i \in 1..Len(tasks) : \A k \in 1..Len(ret) :
            LET Tie(x) == /\ x.base_price = ret[k].base_price
                          /\ x.departure_time = ret[k].departure_time
                Mine(x) == Tie(x) /\ x.operator_code = tasks[i].code
            IN SelectSeq(ret, Mine) = SelectSeq(TaskResult(tasks[i]).value, Tie)

\* Two results of one operator tie on both keys, and the adapter returned
\* r2 before r1.
C18_Witness ==
    /\ pc = "done"
    /\ \E k \in 1..(Len(ret) - 1) :
           /\ ret[k].base_price = ret[k + 1].base_price
           /\ ret[k].departure_time = ret[k + 1].departure_time
           /\ ret[k].operator_code = ret[k + 1].operator_code
           /\ ret[k].route_id = "r2"
           /\ ret[k + 1].route_id = "r1"

(***************************************************************************)
(* C19: results of different operators that have the same base price and   *)
(* the same departure time stand in the merged list in the order of their  *)
(* operator codes, whatever the order of registration was.                 *)
(***************************************************************************)
CodeRank == [c \in {"COR", "CTN", "GNV"} |->
                IF c = "COR" THEN 1 ELSE IF c = "CTN" THEN 2 ELSE 3]

C19_TiesAcrossAdaptersByOperatorCode ==
    pc = "done" =>
        \A a \in 1..Len(ret) : \A b \in 1..Len(ret) :
            (/\ a < b
             /\ ret[a].base_price = ret[b].base_price
             /\ ret[a].departure_time = ret[b].departure_time
             /\ ret[a].operator_code # ret[b].operator_code) =>
                CodeRank[ret[a].operator_code] < CodeRank[ret[b].operator_code]

(***************************************************************************)
(* C20: every result an adapter returns has a base price not below 0 and,  *)
(* where its seat count is a number, a seat count not below 0.             *)
(***************************************************************************)
C20_SeatsAndPriceNonNegative ==
    \A i \in 1..Len(tasks) :
        tasks[i].state = "done" =>
            \A k \in 1..Len(tasks[i].routes.value) :
                LET r == tasks[i].routes.value[k]
                IN /\ r.base_price >= 0
                   /\ r.available_seats.t = "number" =>
                          r.available_seats.v >= 0

(***************************************************************************)
(* C21: create_booking(operator_code, data) never raises; for an operator  *)
(* that is not registered, and for one whose booking call fails (the       *)
(* request raises, the status is no 200 or 201, the session is closed, the *)
(* adapter has no booking method), it returns an error result; and it      *)
(* leaves the registry and the sessions as they were.                      *)
(***************************************************************************)
C21_CreateBookingNeverRaises ==
    [][\A c \in BookingCodes : \A o \in BookingOutcomes :
          CreateBooking(c, o) =>
              /\ ~booking'.raised
              /\ booking'.result \in {"error", "booking"}
              /\ (~Registered(c) \/ o # "201"
                     \/ \E i \in 1..Len(adapters) :
                            /\ adapters[i].code = c
                            /\ (adapters[i].kind = "ctn"
                                   \/ sessions[adapters[i].session] # "open")) =>
                     booking'.result = "error"
              /\ adapters' = adapters
              /\ sessions' = sessions
              /\ session' = session]_vars

\* A booking was asked of CTN while its direct adapter is registered on an
\* open session: the adapter has no booking method, the caller gets an error.
C21_Witness ==
    /\ booking.operator_code = "CTN"
    /\ booking.result = "error"
    /\ \E i \in 1..Len(adapters) :
           /\ adapters[i].code = "CTN"
           /\ adapters[i].kind = "ctn"
           /\ sessions[adapters[i].session] = "open"

(***************************************************************************)
(* C22: two configs of one initialize call that have the same integration  *)
(* pattern (integration_status) get adapters of the same variant, whatever *)
(* their codes and endpoints.                                              *)
(***************************************************************************)
C22_VariantByIntegrationPatternAlone ==
    [][\A ops \in RegistryLists :
          Initialize(ops) =>
              \A j \in 1..Len(ops) : \A k \in 1..Len(ops) :
                  (/\ Registrable(ops[j])
                   /\ Registrable(ops[k])
                   /\ ops[j].integration_status = ops[k].integration_status) =>
                      \A a \in 1..Len(adapters') : \A b \in 1..Len(adapters') :
                          (/\ adapters'[a].code = ops[j].code
                           /\ adapters'[b].code = ops[k].code) =>
                              adapters'[a].kind = adapters'[b].kind]_vars

(***************************************************************************)
(* C23: create_payment calls a gateway operation only for a request with   *)
(* amount > 0, an "@" in the customer email, a supported currency and a    *)
(* payment method that has a processor; for any other request it calls no  *)
(* gateway and returns a FAILED response with an empty payment id.         *)
(***************************************************************************)
Acceptable(r) ==
    /\ r.amount > 0
    /\ "@" \in {r.customer_email[k] : k \in 1..Len(r.customer_email)}
    /\ r.currency \in {"EUR", "USD", "TND", "GBP"}
    /\ r.payment_method \in
           {"stripe_card", "stripe_sepa", "paypal", "paypal_pay_later"}

C23_GatewayOnlyForValidRequests ==
    payment.state = "returned" =>
        /\ payment.calls # <<>> => Acceptable(payment.request)
        /\ ~Acceptable(payment.request) =>
               /\ payment.calls = <<>>
               /\ payment.response.status = "failed"
               /\ payment.response.payment_id = ""

\* A card payment of a positive amount whose email has no "@" was refused
\* without a gateway call.
C23_Witness ==
    /\ payment.state = "returned"
    /\ payment.request.amount > 0
    /\ payment.request.payment_method = "stripe_card"
    /\ payment.request.customer_email = <<"a", "b">>
    /\ payment.calls = <<>>
    /\ payment.response.status = "failed"

C25_DuplicateEmailRejected ==
    [][/\ \A e \in UserEmails :
             (RegisterCheck(e) /\ \E k \in 1..Len(users) : users[k].email = e) =>
                 /\ auth'[Len(auth')].status = 400
                 /\ auth'[Len(auth')].pc = "done"
                 /\ users' = users
       /\ \A i \in 1..Len(users') : \A j \in 1..Len(users') :
             users'[i].email = users'[j].email => i = j]_vars

\* Two registrations of one email: the first made the user, the second was
\* answered 400, and the email is there once.
C25_Witness ==
    \E i \in 1..Len(auth) : \E j \in 1..Len(auth) :
        /\ i < j
        /\ auth[i].endpoint = "register" /\ auth[i].status = 201
        /\ auth[j].endpoint = "register" /\ auth[j].status = 400
        /\ auth[i].email = auth[j].email
        /\ Cardinality({k \in 1..Len(users) : users[k].email = auth[i].email}) = 1

(***************************************************************************)
(* C26: a login gets tokens (200) exactly when the credentials             *)
(* authenticate and the account is neither locked nor inactive; it gets    *)
(* 401 when they do not authenticate, 423 for a locked account and 403 for *)
(* an inactive one; and the sessions and the login counter of a user count *)
(* the logins of that user that got tokens, no others.                     *)
(***************************************************************************)
TokenLogins(email) ==
    Cardinality({i \in 1..Len(auth) :
                    /\ auth[i].endpoint = "login"
                    /\ auth[i].email = email
                    /\ auth[i].message = "tokens"})

C26_LoginOnlyForUsableAccounts ==
    /\ \A i \in 1..Len(auth) :
           auth[i].endpoint = "login" =>
               LET known == \E k \in 1..Len(users) : users[k].email = auth[i].email
                   u == CHOOSE k \in 1..Len(users) : users[k].email = auth[i].email
                   authenticated == auth[i].credentials /\ known
               IN /\ (auth[i].message = "tokens") <=> (auth[i].status = 200)
                  /\ (auth[i].status = 200) <=>
                         (/\ authenticated
                          /\ ~users[u].locked
                          /\ users[u].account_status = "active")
                  /\ ~authenticated => auth[i].status = 401
                  /\ (authenticated /\ users[u].locked) => auth[i].status = 423
                  /\ (/\ authenticated
                      /\ ~users[u].locked
                      /\ users[u].account_status # "active") =>
                         auth[i].status = 403
    /\ \A k \in 1..Len(users) :
           /\ users[k].sessions = TokenLogins(users[k].email)
           /\ users[k].login_count = TokenLogins(users[k].email)

\* The right password of a locked account was answered 423, and that of an
\* inactive one 403; neither user has a session.
C26_Witness ==
    /\ \E i \in 1..Len(auth) :
           auth[i].endpoint = "login" /\ auth[i].credentials /\ auth[i].status = 423
    /\ \E i \in 1..Len(auth) :
           auth[i].endpoint = "login" /\ auth[i].credentials /\ auth[i].status = 403
    /\ \A k \in 1..Len(users) : users[k].sessions = 0

(***************************************************************************)
(* C29: forgot_password and resend_verification_email answer the same for  *)
(* an email that is registered and for one that is not: two requests to    *)
(* one of these endpoints on the same users table, one for an email with   *)
(* an account and one for an email without, get the same status and the    *)
(* same message.                                                           *)
(***************************************************************************)
C29_RecoveryDoesNotRevealAccounts ==
    \A i \in 1..Len(auth) : \A j \in 1..Len(auth) :
        (/\ auth[i].endpoint \in {"forgot_password", "resend_verification"}
         /\ auth[j].endpoint = auth[i].endpoint
         /\ \E k \in 1..Len(users) : users[k].email = auth[i].email
         /\ ~\E k \in 1..Len(users) : users[k].email = auth[j].email) =>
            /\ auth[i].status = auth[j].status
            /\ auth[i].message = auth[j].message

RECURSIVE SucceededLen(_)
SucceededLen(ts) ==
    IF ts = <<>> THEN 0
    ELSE (IF Succeeded(Head(ts)) THEN Len(Head(ts).routes.value) ELSE 0)
         + SucceededLen(Tail(ts))

(***************************************************************************)
(* C27: a call of search_all_operators makes one search_routes task for    *)
(* each registered adapter, in registry order, and a task that has run is  *)
(* not run again; the list it returns has every element as often as the    *)
(* lists of the adapters that succeeded have it together, and its length   *)
(* is the sum of their lengths.                                            *)
(***************************************************************************)
C27_OneCallPerAdapterAndMergeIsPermutation ==
    [][/\ StartSearch =>
             /\ Len(tasks') = Len(adapters)
             /\ \A i \in 1..Len(adapters) :
                    /\ tasks'[i].code = adapters[i].code
                    /\ tasks'[i].state = "pending"
                    /\ \A j \in 1..Len(adapters) :
                           adapters[i].code = adapters[j].code => i = j
       /\ (pc = "gather" /\ pc' = "gather") =>
             /\ Len(tasks') = Len(tasks)
             /\ \A i \in 1..Len(tasks) :
                    /\ tasks'[i].code = tasks[i].code
                    /\ tasks[i].state # "pending" => tasks'[i] = tasks[i]
       /\ (pc = "gather" /\ pc' = "done") =>
             /\ tasks' = tasks
             /\ Len(ret') = SucceededLen(tasks)
             /\ \A x \in Elements(ret')
                          \cup UNION {Elements(tasks[i].routes.value) :
                                         i \in 1..Len(tasks)} :
                    CountIn(ret', x) = SucceededCount(tasks, x)]_vars

\* Two adapters were searched, both succeeded, one with one result and one
\* with two: three results are returned.
C27_Witness ==
    /\ pc = "done"
    /\ Len(tasks) = 2
    /\ Succeeded(tasks[1]) /\ Succeeded(tasks[2])
    /\ Len(tasks[1].routes.value) + Len(tasks[2].routes.value) = 3
    /\ Len(ret) = 3

====
